---------------------------- MODULE Spec2Model ----------------------------
(***************************************************************************)
(* A model of apply-env (src/src/lib.rs, src/src/main.rs): the placeholder *)
(* renderer, the escape transform, the helm wrap detector, the .env loader *)
(* and the command line driver.                                            *)
(*                                                                         *)
(* A text is a sequence of bytes.  A byte is written as a one-character    *)
(* string; the two bytes of the multi-byte character U+00A7 are written    *)
(* "C2" (lead byte) and "A7" (continuation byte), the backtick is written  *)
(* "BT" and the control characters are written "LF", "CR", "BS", "FF",     *)
(* "TAB".  Offsets into a text are byte offsets counted from 0, as in the  *)
(* Rust source.                                                            *)
(***************************************************************************)
EXTENDS Integers, Sequences, FiniteSets, TLC

VARIABLES
    template,       \* render_template_with_lookup: the template argument
    cfg,            \* the TemplateConfig built by main / given by the caller
    process_env,    \* the process environment read by env::var
    pc,             \* position inside render_template_with_lookup
    last_end,       \* lib.rs:83
    result,         \* lib.rs:82
    idx,            \* the enumerate() index i of lib.rs:85
    calls,          \* names passed to the lookup closure during this render
    trace,          \* debug lines printed during this render
    pass,           \* 1 for the first render of a text, 2 for the render of its output
    first,          \* the output of the first render when pass = 2
    orig,           \* escape_special_chars: the argument
    s,              \* escape_special_chars: the local s
    esc_step,       \* escape_special_chars: how many replace calls have run
    lines,          \* load_env_file: text.lines()
    line_no,        \* load_env_file: lines consumed so far
    map,            \* load_env_file: the HashMap being built
    warnings,       \* load_env_file: line numbers warned about
    lpc,            \* position inside load_env_file
    raw_args,       \* main: env::args()
    stdin_content,  \* what standard input holds
    fs,             \* the file system: file name -> content, for the files that exist
    stdout,         \* what the process printed with print!
    cli,            \* main: the parsed Cli, main.rs:103
    runs,           \* how many runs of run_from_stdio have completed
    fs0,            \* the file system before the first run
    mpc,            \* position inside main
    exit_code       \* process exit status once main has ended

vars == << template, cfg, process_env, pc, last_end, result, idx, calls, trace,
           pass, first, orig, s, esc_step, lines, line_no, map, warnings, lpc,
           raw_args, stdin_content, fs, stdout, cli, runs, fs0, mpc, exit_code >>

renderVars == << template, cfg, process_env, pc, last_end, result, idx, calls,
                 trace, pass, first >>
escapeVars == << orig, s, esc_step >>
loadVars == << lines, line_no, map, warnings, lpc >>
mainVars == << raw_args, stdin_content, fs, stdout, cli, runs, fs0, mpc, exit_code >>

---------------------------------------------------------------------------
(* Option<T> *)
None == [some |-> FALSE, val |-> << >>]
Some(v) == [some |-> TRUE, val |-> v]

(* the struct Cli of main.rs:18-46 with no option given *)
EmptyCli ==
    [ file |-> None, rewrite |-> FALSE, helm_only |-> FALSE, escape |-> FALSE,
      if_not_found |-> None, debug |-> FALSE, env_file |-> None ]

(* Bounds of the model *)
MaxSegs == 4
MaxNormalSegs == 3
MaxValLen == 3
MaxLines == 2
MaxArgs == 3
MaxRuns == 3

---------------------------------------------------------------------------
(* Texts *)

RECURSIVE Flatten(_)
Flatten(ss) == IF ss = << >> THEN << >> ELSE Head(ss) \o Flatten(Tail(ss))

SeqsUpTo(S, n) == UNION { [1..k -> S] : k \in 0..n }

(* content[a..b] of Rust, for offsets that are valid *)
Slice(t, a, b) == SubSeq(t, a + 1, b)

(* a UTF-8 continuation byte *)
IsContinuation(b) == b = "A7"

(* str::is_char_boundary *)
is_char_boundary(t, i) ==
    \/ i = 0
    \/ i = Len(t)
    \/ (0 < i /\ i < Len(t) /\ ~IsContinuation(t[i + 1]))

(* whether the slice expression content[a..b] evaluates without a panic *)
SliceOk(t, a, b) ==
    /\ a <= b
    /\ b <= Len(t)
    /\ is_char_boundary(t, a)
    /\ is_char_boundary(t, b)

StartsWith(t, p) == Len(t) >= Len(p) /\ SubSeq(t, 1, Len(p)) = p
EndsWith(t, p) == Len(t) >= Len(p) /\ SubSeq(t, Len(t) - Len(p) + 1, Len(t)) = p

---------------------------------------------------------------------------
(* The placeholder pattern of lib.rs:79: two opening braces, any whitespace,
   one or more word characters (the name), any whitespace, two closing braces *)

IsSpace(c) == c \in {" ", "TAB", "LF", "CR", "FF"}
IsWord(c) ==
    c \in {"F", "G", "K", "a", "b", "d", "e", "f", "n", "o", "p", "r", "t", "v", "x", "_"}

RECURSIVE SkipSpace(_, _)
SkipSpace(t, i) ==
    IF i < Len(t) /\ IsSpace(t[i + 1]) THEN SkipSpace(t, i + 1) ELSE i

RECURSIVE SkipWord(_, _)
SkipWord(t, i) ==
    IF i < Len(t) /\ IsWord(t[i + 1]) THEN SkipWord(t, i + 1) ELSE i

(* the match of the pattern anchored at offset p, if there is one *)
MatchAt(t, p) ==
    LET a == SkipSpace(t, p + 2)
        b == SkipWord(t, a)
        c == SkipSpace(t, b)
    IN  IF /\ p + 2 <= Len(t)
           /\ t[p + 1] = "{" /\ t[p + 2] = "{"
           /\ b > a
           /\ c + 2 <= Len(t)
           /\ t[c + 1] = "}" /\ t[c + 2] = "}"
        THEN [found |-> TRUE, start |-> p, end |-> c + 2,
              name |-> Slice(t, a, b)]
        ELSE [found |-> FALSE, start |-> Len(t), end |-> Len(t), name |-> << >>]

(* the leftmost match starting at or after offset from: one step of
   captures_iter *)
RECURSIVE FindMatch(_, _)
FindMatch(t, from) ==
    IF from >= Len(t)
    THEN [found |-> FALSE, start |-> Len(t), end |-> Len(t), name |-> << >>]
    ELSE IF MatchAt(t, from).found THEN MatchAt(t, from)
         ELSE FindMatch(t, from + 1)

(* every match of the pattern, left to right: what captures_iter yields *)
RECURSIVE MatchesFrom(_, _)
MatchesFrom(t, from) ==
    IF FindMatch(t, from).found
    THEN << FindMatch(t, from) >> \o MatchesFrom(t, FindMatch(t, from).end)
    ELSE << >>

AllMatches(t) == MatchesFrom(t, 0)

---------------------------------------------------------------------------
(* escape_special_chars, lib.rs:49-59 *)

RECURSIVE Replace(_, _, _)
Replace(t, c, by) ==
    IF t = << >> THEN << >>
    ELSE (IF Head(t) = c THEN by ELSE << Head(t) >>) \o Replace(Tail(t), c, by)

EscapeStepBackslashLast(t, i) ==
    CASE i = 1 -> Replace(t, "\"", << "\\", "\"" >>)
      [] i = 2 -> Replace(t, "LF", << "\\", "n" >>)
      [] i = 3 -> Replace(t, "CR", << "\\", "r" >>)
      [] i = 4 -> Replace(t, "BS", << "\\", "b" >>)
      [] i = 5 -> Replace(t, "FF", << "\\", "f" >>)
      [] i = 6 -> Replace(t, "TAB", << "\\", "t" >>)
      [] i = 7 -> Replace(t, "\\", << "\\", "\\" >>)

(* the i-th replace call of escape_special_chars applied to t *)
EscapeStep(t, i) ==
    CASE i = 1 -> Replace(t, "\\", << "\\", "\\" >>)
      [] i = 2 -> Replace(t, "\"", << "\\", "\"" >>)
      [] i = 3 -> Replace(t, "LF", << "\\", "n" >>)
      [] i = 4 -> Replace(t, "CR", << "\\", "r" >>)
      [] i = 5 -> Replace(t, "BS", << "\\", "b" >>)
      [] i = 6 -> Replace(t, "FF", << "\\", "f" >>)
      [] i = 7 -> Replace(t, "TAB", << "\\", "t" >>)

EscapeSteps == 7

RECURSIVE EscapeFrom(_, _)
EscapeFrom(t, i) ==
    IF i > EscapeSteps THEN t ELSE EscapeFrom(EscapeStep(t, i), i + 1)

escape_special_chars(t) == EscapeFrom(t, 1)

---------------------------------------------------------------------------
(* is_helm_wrapped, lib.rs:61-69.  panic: the slice expression of lib.rs:68
   that is evaluated is not on character boundaries. *)

HelmPrefix == << "{", "{", "BT" >>
HelmSuffix == << "BT", "}", "}" >>

is_helm_wrapped_off_by_one(content, start, end) ==
    IF start <= 3 \/ end + 3 >= Len(content)
    THEN [panic |-> FALSE, val |-> FALSE]
    ELSE IF ~SliceOk(content, start - 3, start)
    THEN [panic |-> TRUE, val |-> FALSE]
    ELSE IF Slice(content, start - 3, start) # HelmPrefix
    THEN [panic |-> FALSE, val |-> FALSE]
    ELSE IF ~SliceOk(content, end, end + 3)
    THEN [panic |-> TRUE, val |-> FALSE]
    ELSE [panic |-> FALSE, val |-> Slice(content, end, end + 3) = HelmSuffix]

is_helm_wrapped(content, start, end) ==
    IF start < 3 \/ end + 3 > Len(content)
    THEN [panic |-> FALSE, val |-> FALSE]
    ELSE IF ~SliceOk(content, start - 3, start)
    THEN [panic |-> TRUE, val |-> FALSE]
    ELSE IF Slice(content, start - 3, start) # HelmPrefix
    THEN [panic |-> FALSE, val |-> FALSE]
    ELSE IF ~SliceOk(content, end, end + 3)
    THEN [panic |-> TRUE, val |-> FALSE]
    ELSE [panic |-> FALSE, val |-> Slice(content, end, end + 3) = HelmSuffix]

---------------------------------------------------------------------------
(* render_template_with_lookup, lib.rs:71-160 *)

(* the closure of render_template_str, lib.rs:165: env::var(name).ok() *)
lookup(env, name) == IF name \in DOMAIN env THEN env[name] ELSE None

(* the format! call of lib.rs:99 *)
HelmWrap(o) == HelmPrefix \o o \o HelmSuffix

(* one debug line, lib.rs:100-107, 118-125, 130-137, 140-146: printed only
   when cfg.debug *)
DebugLine(c, i, o, kind, txt) ==
    IF c.debug
    THEN << [index |-> i, orig |-> o, kind |-> kind, text |-> txt] >>
    ELSE << >>

(* the helm-only branch, lib.rs:96-109 *)
HelmReplacement(t, c, i, m) ==
    LET o == Slice(t, m.start, m.end)
        w == is_helm_wrapped(t, m.start, m.end)
    IN  IF w.panic
        THEN [panic |-> TRUE, text |-> << >>, trace |-> << >>]
        ELSE IF w.val
        THEN [panic |-> FALSE, text |-> o, trace |-> << >>]
        ELSE [panic |-> FALSE, text |-> HelmWrap(o),
              trace |-> DebugLine(c, i, o, "apply", HelmWrap(o))]

(* the Some(v) arm, lib.rs:112-127 *)
Resolved(c, i, o, v) ==
    LET v2 == IF c.escape THEN escape_special_chars(v) ELSE v
    IN  [panic |-> FALSE, text |-> v2, trace |-> DebugLine(c, i, o, "apply", v2)]

UnresolvedEscapingDefault(c, i, o) ==
    LET d == IF c.escape THEN escape_special_chars(c.default.val) ELSE c.default.val
    IN  IF c.default.some
        THEN [panic |-> FALSE, text |-> d, trace |-> DebugLine(c, i, o, "default", d)]
        ELSE [panic |-> FALSE, text |-> o, trace |-> DebugLine(c, i, o, "keep", o)]

(* the None arm, lib.rs:128-149 *)
Unresolved(c, i, o) ==
    IF c.default.some
    THEN [panic |-> FALSE, text |-> c.default.val,
          trace |-> DebugLine(c, i, o, "default", c.default.val)]
    ELSE [panic |-> FALSE, text |-> o, trace |-> DebugLine(c, i, o, "keep", o)]

LookupCallsMemoized(t, c, m) ==
    IF c.helm_only \/ (\E k \in 1..Len(AllMatches(t)) :
                          /\ AllMatches(t)[k].start < m.start
                          /\ AllMatches(t)[k].name = m.name)
    THEN << >>
    ELSE << m.name >>

(* the names one loop iteration passes to the lookup closure: lib.rs:111 is
   the only call, and it is in the else branch of lib.rs:95 *)
LookupCalls(t, c, m) == IF c.helm_only THEN << >> ELSE << m.name >>

(* The replacement of one match, lib.rs:95-151: whether it panics, the text
   and the debug lines it prints. *)
Replacement(t, c, env, i, m) ==
    LET o == Slice(t, m.start, m.end)
        l == lookup(env, m.name)
    IN  IF c.helm_only
        THEN HelmReplacement(t, c, i, m)
        ELSE IF l.some THEN Resolved(c, i, o, l.val) ELSE Unresolved(c, i, o)

UnmatchedSpanFromZero(t, last, start) == Slice(t, 0, start)

(* &template[last_end..start], lib.rs:90 *)
UnmatchedSpan(t, last, start) == Slice(t, last, start)

(* &template[last_end..], lib.rs:157 *)
TrailingSpan(t, last) == Slice(t, last, Len(t))

(* lib.rs:75-83 *)
RenderStart ==
    /\ pc = "ready"
    /\ IF template = << >>
       THEN pc' = "done"
       ELSE pc' = "loop"
    /\ result' = << >>
    /\ last_end' = 0
    /\ idx' = 0
    /\ calls' = << >>
    /\ trace' = << >>
    /\ UNCHANGED << template, cfg, process_env, pass, first >>
    /\ UNCHANGED << escapeVars, loadVars, mainVars >>

(* one iteration of the for loop, lib.rs:85-155 *)
RenderMatch ==
    /\ pc = "loop"
    /\ FindMatch(template, last_end).found
    /\ LET m == FindMatch(template, last_end)
           r == Replacement(template, cfg, process_env, idx, m)
       IN  IF r.panic
           THEN /\ pc' = "panic"
                /\ result' = result \o UnmatchedSpan(template, last_end, m.start)
                /\ UNCHANGED << last_end, idx, calls, trace >>
           ELSE /\ pc' = "loop"
                /\ result' = result \o UnmatchedSpan(template, last_end, m.start) \o r.text
                /\ last_end' = m.end
                /\ idx' = idx + 1
                /\ calls' = calls \o LookupCalls(template, cfg, m)
                /\ trace' = trace \o r.trace
    /\ UNCHANGED << template, cfg, process_env, pass, first >>
    /\ UNCHANGED << escapeVars, loadVars, mainVars >>

(* the loop ends, lib.rs:157-159 *)
RenderFinish ==
    /\ pc = "loop"
    /\ ~FindMatch(template, last_end).found
    /\ result' = result \o TrailingSpan(template, last_end)
    /\ pc' = "done"
    /\ UNCHANGED << template, cfg, process_env, last_end, idx, calls, trace,
                    pass, first >>
    /\ UNCHANGED << escapeVars, loadVars, mainVars >>

(* a second call of render_template_with_lookup, on the output of the first
   (a caller applying the tool to its own output): the arguments of lib.rs:71 *)
Rerender ==
    /\ pc = "done"
    /\ pass = 1
    /\ first' = result
    /\ template' = result
    /\ pass' = 2
    /\ pc' = "ready"
    /\ UNCHANGED << cfg, process_env, last_end, result, idx, calls, trace >>
    /\ UNCHANGED << escapeVars, loadVars, mainVars >>

---------------------------------------------------------------------------
(* Inputs of the render *)

Placeholder == << "{", "{", "F", "}", "}" >>
SpacedPlaceholder == << "{", "{", " ", "G", " ", "}", "}" >>
MultiByte == << "C2", "A7" >>

(* templates for helm-only renders *)
HelmSegs == { Placeholder, SpacedPlaceholder, HelmPrefix, HelmSuffix, MultiByte,
              << ":" >>, << "{" >> }
HelmTemplates == { Flatten(ss) : ss \in SeqsUpTo(HelmSegs, MaxSegs) }

(* templates for renders under every configuration *)
RenderSegs == { Placeholder, SpacedPlaceholder, HelmPrefix, HelmSuffix, MultiByte }
RenderTemplates == { Flatten(ss) : ss \in SeqsUpTo(RenderSegs, MaxNormalSegs) }

Names == { << "F" >>, << "G" >> }
Envs == { [n \in Names |-> IF n \in set THEN Some(<< n[1], "\"" >>) ELSE None] :
          set \in SUBSET Names }
Defaults == { None, Some(<< "\"", "d" >>) }

(* TemplateConfig, lib.rs:15-22, with the env_vars field main.rs:133 gives it *)
Configs ==
    [ file_name : {None}, rewrite : {FALSE}, helm_only : BOOLEAN, escape : BOOLEAN,
      default : Defaults, debug : BOOLEAN, env_vars : {None} ]

IdleEscape == orig = << >> /\ s = << >> /\ esc_step = 0
IdleLoad ==
    /\ lines = << >> /\ line_no = 0 /\ map = << >> /\ warnings = << >> /\ lpc = "idle"
IdleMain ==
    /\ raw_args = << >> /\ stdin_content = << >> /\ fs = << >> /\ stdout = << >>
    /\ cli = EmptyCli /\ runs = 0 /\ fs0 = << >> /\ mpc = "lib" /\ exit_code = -1
InitLoop ==
    /\ pc = "ready" /\ last_end = 0 /\ result = << >> /\ idx = 0
    /\ calls = << >> /\ trace = << >> /\ pass = 1 /\ first = << >>

(* a library call render_template_with_lookup(template, cfg, lookup) *)
InitRender ==
    /\ template \in RenderTemplates
    /\ cfg \in Configs
    /\ process_env \in Envs
    /\ InitLoop /\ IdleEscape /\ IdleLoad /\ IdleMain

NextRender == RenderStart \/ RenderMatch \/ RenderFinish

SpecRender == InitRender /\ [][NextRender]_vars

(* helm-only library calls, and the render of their output *)
InitHelm ==
    /\ template \in HelmTemplates
    /\ cfg \in { c \in Configs : c.helm_only /\ ~c.escape /\ ~c.default.some /\ ~c.debug }
    /\ process_env \in { e \in Envs : \A n \in Names : ~e[n].some }
    /\ InitLoop /\ IdleEscape /\ IdleLoad /\ IdleMain

NextHelm == RenderStart \/ RenderMatch \/ RenderFinish \/ Rerender

SpecHelm == InitHelm /\ [][NextHelm]_vars

---------------------------------------------------------------------------
(* escape_special_chars run one replace call at a time, lib.rs:51-57 *)

EscapeNext ==
    /\ pc = "escape"
    /\ esc_step < EscapeSteps
    /\ s' = EscapeStep(IF esc_step = 0 THEN orig ELSE s, esc_step + 1)
    /\ esc_step' = esc_step + 1
    /\ UNCHANGED << orig, renderVars, loadVars, mainVars >>

EscChars == { "\\", "\"", "LF", "CR", "BS", "FF", "TAB", "/", "n" }

IdleRender ==
    /\ template = << >> /\ cfg \in { c \in Configs : ~c.helm_only /\ ~c.escape
                                                     /\ ~c.default.some /\ ~c.debug }
    /\ process_env = [n \in Names |-> None]
    /\ last_end = 0 /\ result = << >> /\ idx = 0
    /\ calls = << >> /\ trace = << >> /\ pass = 1 /\ first = << >>

InitEscape ==
    /\ orig \in SeqsUpTo(EscChars, MaxValLen)
    /\ s = << >>
    /\ esc_step = 0
    /\ pc = "escape"
    /\ IdleRender /\ IdleLoad /\ IdleMain

SpecEscape == InitEscape /\ [][EscapeNext]_vars

---------------------------------------------------------------------------
(* load_env_file, main.rs:149-192.  A line is a sequence of characters. *)

RECURSIVE TrimStart(_)
TrimStart(t) == IF t # << >> /\ IsSpace(Head(t)) THEN TrimStart(Tail(t)) ELSE t

RECURSIVE TrimEnd(_)
TrimEnd(t) ==
    IF t # << >> /\ IsSpace(t[Len(t)]) THEN TrimEnd(SubSeq(t, 1, Len(t) - 1)) ELSE t

(* str::trim *)
Trim(t) == TrimEnd(TrimStart(t))

ExportPrefix == << "e", "x", "p", "o", "r", "t", " " >>

(* trimmed.strip_prefix("export ").unwrap_or(trimmed), main.rs:161 *)
StripExport(t) ==
    IF StartsWith(t, ExportPrefix) THEN SubSeq(t, Len(ExportPrefix) + 1, Len(t)) ELSE t

(* the offset of the first "=" of t, or Len(t) when it has none *)
RECURSIVE FirstEq(_, _)
FirstEq(t, i) == IF i < Len(t) /\ t[i + 1] # "=" THEN FirstEq(t, i + 1) ELSE i

(* the first item of splitn(2, '='), main.rs:163-164 *)
KeyPart(t) == Slice(t, 0, FirstEq(t, 0))

(* the second item of splitn(2, '='), or "" when there is none, main.rs:177 *)
ValuePart(t) ==
    IF FirstEq(t, 0) < Len(t) THEN Slice(t, FirstEq(t, 0) + 1, Len(t)) ELSE << >>

(* the condition of main.rs:180-181 *)
IsQuoted(v) ==
    \/ (StartsWith(v, << "\"" >>) /\ EndsWith(v, << "\"" >>))
    \/ (StartsWith(v, << "'" >>) /\ EndsWith(v, << "'" >>))

(* value_unquoted, main.rs:180-186: the slice of main.rs:183 panics when its
   start 1 is past its end len - 1 *)
Unquote(v) ==
    IF IsQuoted(v)
    THEN IF SliceOk(v, 1, Len(v) - 1)
         THEN [panic |-> FALSE, val |-> Slice(v, 1, Len(v) - 1)]
         ELSE [panic |-> TRUE, val |-> << >>]
    ELSE [panic |-> FALSE, val |-> v]

(* HashMap::insert *)
Insert(m, k, v) == [x \in DOMAIN m \cup {k} |-> IF x = k THEN v ELSE m[x]]

EmptyMap == [x \in {} |-> << >>]

(* What the loop body of main.rs:153-189 does with one line. *)
LineEffect(line) ==
    LET trimmed == Trim(line)
        without_export == StripExport(trimmed)
        key == Trim(KeyPart(without_export))
        value_raw == Trim(ValuePart(without_export))
    IN  IF trimmed = << >> \/ Head(trimmed) = "#"
        THEN [kind |-> "skip", key |-> << >>, val |-> << >>]
        ELSE IF key = << >>
        THEN [kind |-> "warn", key |-> << >>, val |-> << >>]
        ELSE IF Unquote(value_raw).panic
        THEN [kind |-> "panic", key |-> key, val |-> << >>]
        ELSE [kind |-> "insert", key |-> key, val |-> Unquote(value_raw).val]

(* one iteration of the for loop, main.rs:153-189 *)
LoadLine ==
    /\ lpc = "loop"
    /\ line_no < Len(lines)
    /\ LET e == LineEffect(lines[line_no + 1])
       IN  /\ line_no' = line_no + 1
           /\ lpc' = IF e.kind = "panic" THEN "panic" ELSE "loop"
           /\ map' = IF e.kind = "insert" THEN Insert(map, e.key, e.val) ELSE map
           /\ warnings' = IF e.kind = "warn" THEN Append(warnings, line_no + 1)
                          ELSE warnings
    /\ UNCHANGED << lines, renderVars, escapeVars, mainVars >>

(* Ok(map), main.rs:191 *)
LoadReturn ==
    /\ lpc = "loop"
    /\ line_no = Len(lines)
    /\ lpc' = "done"
    /\ UNCHANGED << lines, line_no, map, warnings, renderVars, escapeVars, mainVars >>

(* Lines of a key/value file *)
LineSet ==
    { << >>,
      << " " >>,
      << "#", "K", "=", "v" >>,
      << "K", "=", "v" >>,
      << "e", "x", "p", "o", "r", "t", " ", "K", "=", "v" >>,
      << " ", "G", " ", "=", " ", "v", " " >>,
      << "K", "=", "\"", "v", "\"" >>,
      << "K", "=", "'", "v", "'" >>,
      << "K", "=", "'", "'" >>,
      << "K", "=", "'", "v", "\"" >>,
      << "K", "=", "'" >>,
      << "G", "=", "\"" >>,
      << "=", "v" >>,
      << "K" >>,
      << "G", "=", "v", "=", "v" >> }

InitLoad ==
    /\ lines \in SeqsUpTo(LineSet, MaxLines)
    /\ line_no = 0
    /\ map = EmptyMap
    /\ warnings = << >>
    /\ lpc = "loop"
    /\ pc = "idle"
    /\ IdleRender /\ IdleEscape /\ IdleMain

NextLoad == LoadLine \/ LoadReturn

SpecLoad == InitLoad /\ [][NextLoad]_vars

---------------------------------------------------------------------------
(* The command line, main.rs.  An argument is a string. *)

(* arg == "-f" || arg == "--file" || arg.starts_with("--file="), main.rs:58 *)
IsFileFlag(a) == a \in {"-f", "--file", "--file=t"}

(* normalize_args, main.rs:48-86 *)
normalize_args(args) ==
    IF Len(args) <= 1 THEN args
    ELSE IF \E k \in 2..Len(args) : IsFileFlag(args[k]) THEN args
    ELSE IF args[Len(args)] = "-"
    THEN SubSeq(args, 1, Len(args) - 1) \o << "-f", "-" >>
    ELSE args

(* an argument clap reads as an option rather than as a value *)
LooksLikeFlag(a) == a \in {"-f", "--file", "--file=t", "--env-file=e", "-w", "-h"}

(* Cli::parse_from, main.rs:103, for the options of main.rs:18-46: the
   arguments are read left to right; -h ends the parse with the help text, an
   argument that is no option, an option given twice or an option without
   its value ends it with a usage error. *)
RECURSIVE ClapParse(_, _, _)
ClapParse(args, k, c) ==
    IF k > Len(args) THEN [kind |-> "ok", cli |-> c]
    ELSE LET a == args[k]
             err == [kind |-> "error", cli |-> c]
         IN  CASE a = "-h" -> [kind |-> "help", cli |-> c]
               [] a = "-w" ->
                    IF c.rewrite THEN err
                    ELSE ClapParse(args, k + 1, [c EXCEPT !.rewrite = TRUE])
               [] a \in {"-f", "--file"} ->
                    IF k = Len(args) \/ LooksLikeFlag(args[k + 1]) \/ c.file.some
                    THEN err
                    ELSE ClapParse(args, k + 2, [c EXCEPT !.file = Some(args[k + 1])])
               [] a = "--file=t" ->
                    IF c.file.some THEN err
                    ELSE ClapParse(args, k + 1, [c EXCEPT !.file = Some("t")])
               [] a = "--env-file=e" ->
                    IF c.env_file.some THEN err
                    ELSE ClapParse(args, k + 1, [c EXCEPT !.env_file = Some("e")])
               [] OTHER -> err

(* clap's exit status for a usage error, and main's process::exit(1) *)
ClapUsageError == 2
ExitFailure == 1
ExitPanic == 101

NoInputGivenNever(c) == FALSE

(* cli.file.is_none(), main.rs:106 *)
NoInputGiven(c) == ~c.file.some

(* main.rs:88-111: the argument count, normalize_args, the parse and the
   check that an input was selected *)
MainParse ==
    /\ mpc = "start"
    /\ LET p == ClapParse(normalize_args(raw_args), 2, EmptyCli)
       IN  IF Len(raw_args) = 1
           THEN mpc' = "exit" /\ exit_code' = 0 /\ cli' = cli
           ELSE IF p.kind = "help"
           THEN mpc' = "exit" /\ exit_code' = 0 /\ cli' = cli
           ELSE IF p.kind = "error"
           THEN mpc' = "exit" /\ exit_code' = ClapUsageError /\ cli' = cli
           ELSE IF NoInputGiven(p.cli)
           THEN mpc' = "exit" /\ exit_code' = ExitFailure /\ cli' = p.cli
           ELSE mpc' = "parsed" /\ exit_code' = exit_code /\ cli' = p.cli
    /\ UNCHANGED << raw_args, stdin_content, fs, stdout, runs, fs0 >>
    /\ UNCHANGED << renderVars, escapeVars, loadVars >>

(* main.rs:114-123 with the read of main.rs:150: the env file is read, or
   there is none *)
MainEnvFile ==
    /\ mpc = "parsed"
    /\ IF ~cli.env_file.some
       THEN /\ mpc' = "config"
            /\ UNCHANGED << exit_code, loadVars >>
       ELSE IF cli.env_file.val \in DOMAIN fs
       THEN /\ mpc' = "config"
            /\ lines' = fs[cli.env_file.val]
            /\ line_no' = 0
            /\ map' = EmptyMap
            /\ warnings' = << >>
            /\ lpc' = "loop"
            /\ UNCHANGED exit_code
       ELSE /\ mpc' = "exit"
            /\ exit_code' = ExitFailure
            /\ UNCHANGED loadVars
    /\ UNCHANGED << raw_args, stdin_content, fs, stdout, cli, runs, fs0 >>
    /\ UNCHANGED << renderVars, escapeVars >>

(* main.rs:126-134 *)
MainConfig ==
    /\ mpc = "config"
    /\ lpc \in {"idle", "done"}
    /\ cfg' = [ file_name |-> cli.file, rewrite |-> cli.rewrite,
                helm_only |-> cli.helm_only, escape |-> cli.escape,
                default |-> cli.if_not_found, debug |-> cli.debug,
                env_vars |-> IF lpc = "done" THEN Some(map) ELSE None ]
    /\ mpc' = "run"
    /\ UNCHANGED << template, process_env, pc, last_end, result, idx, calls, trace,
                    pass, first >>
    /\ UNCHANGED << escapeVars, loadVars, raw_args, stdin_content, fs, stdout, cli,
                    runs, fs0, exit_code >>

(* load_content, lib.rs:177-192, called at lib.rs:172 *)
load_content(c, files, input) ==
    IF c.file_name.some
    THEN IF c.file_name.val \in DOMAIN files THEN files[c.file_name.val] ELSE << >>
    ELSE input

LoadContent ==
    /\ mpc = "run"
    /\ template' = load_content(cfg, fs, stdin_content)
    /\ pc' = "ready"
    /\ mpc' = "render"
    /\ UNCHANGED << cfg, process_env, last_end, result, idx, calls, trace, pass, first >>
    /\ UNCHANGED << escapeVars, loadVars, raw_args, stdin_content, fs, stdout, cli,
                    runs, fs0, exit_code >>

(* cfg.rewrite && !content.is_empty() with Some(file_name), lib.rs:195-196 *)
ShouldRewrite(c, content) == c.rewrite /\ content # << >> /\ c.file_name.some

FileContentWithoutNewline(content) == content

(* what writeln!(file, "{}", content) leaves in the created file, lib.rs:200-203 *)
FileContent(content) == content \o << "LF" >>

(* the two debug lines of the rewrite branch, lib.rs:197-199 and 204-206 *)
RewriteDebug(c) ==
    IF c.debug
    THEN << [index |-> -1, orig |-> << >>, kind |-> "try rewrite", text |-> << >>],
            [index |-> -1, orig |-> << >>, kind |-> "rewrited", text |-> << >>] >>
    ELSE << >>

(* rewrite_or_print, lib.rs:194-219, called at lib.rs:174, and the return of
   main with status 0 *)
RewriteOrPrint ==
    /\ mpc = "render"
    /\ pc = "done"
    /\ IF ShouldRewrite(cfg, result)
       THEN /\ fs' = [x \in DOMAIN fs \cup {cfg.file_name.val} |->
                        IF x = cfg.file_name.val THEN FileContent(result) ELSE fs[x]]
            /\ trace' = trace \o RewriteDebug(cfg)
            /\ UNCHANGED stdout
       ELSE /\ stdout' = stdout \o result
            /\ UNCHANGED << fs, trace >>
    /\ mpc' = "exit"
    /\ exit_code' = 0
    /\ runs' = runs + 1
    /\ UNCHANGED << raw_args, stdin_content, cli, fs0 >>
    /\ UNCHANGED << template, cfg, process_env, pc, last_end, result, idx, calls,
                    pass, first >>
    /\ UNCHANGED << escapeVars, loadVars >>

(* the next run of the program over the same files, with the same
   configuration: run_from_stdio is entered again, lib.rs:171 *)
RunAgain ==
    /\ mpc = "exit"
    /\ exit_code = 0
    /\ 1 <= runs /\ runs < MaxRuns
    /\ mpc' = "run"
    /\ exit_code' = -1
    /\ stdout' = << >>
    /\ pc' = "idle"
    /\ template' = << >> /\ result' = << >> /\ last_end' = 0 /\ idx' = 0
    /\ calls' = << >> /\ trace' = << >>
    /\ UNCHANGED << cfg, process_env, pass, first >>
    /\ UNCHANGED << raw_args, stdin_content, fs, cli, runs, fs0 >>
    /\ UNCHANGED << escapeVars, loadVars >>

(* a panic in load_env_file or in the render ends the process *)
MainPanic ==
    /\ mpc \in {"config", "render"}
    /\ lpc = "panic" \/ pc = "panic"
    /\ mpc' = "exit"
    /\ exit_code' = ExitPanic
    /\ UNCHANGED << raw_args, stdin_content, fs, stdout, cli, runs, fs0 >>
    /\ UNCHANGED << renderVars, escapeVars, loadVars >>

(* Invocations *)
ArgSet == { "-f", "t", "-", "--file=t", "--env-file=e", "-w", "-h" }

FileT == Placeholder \o << ":" >> \o SpacedPlaceholder
FileDash == << ":" >> \o Placeholder
StdinText == Placeholder \o Placeholder
EnvFileLines == << << "F", "=", "v" >>, << "K", "=", "'" >> >>

Files == [ name : {"t"}, content : {FileT} ]
         \cup [ name : {"-"}, content : {FileDash} ]
         \cup [ name : {"e"}, content : { << << "F", "=", "v" >> >>, EnvFileLines } ]

FileSystems ==
    { [x \in { f.name : f \in present } |-> (CHOOSE f \in present : f.name = x).content] :
        present \in { P \in SUBSET Files : \A f, g \in P : f.name = g.name => f = g } }

(* the Default of lib.rs:24-35 *)
DefaultConfig ==
    [ file_name |-> None, rewrite |-> FALSE, helm_only |-> FALSE, escape |-> FALSE,
      default |-> None, debug |-> FALSE, env_vars |-> None ]

InitMain ==
    /\ raw_args \in { << "apply-env" >> \o a : a \in SeqsUpTo(ArgSet, MaxArgs) }
    /\ stdin_content = StdinText
    /\ fs \in FileSystems
    /\ process_env \in { e \in Envs : \A n, m \in Names : e[n].some = e[m].some }
    /\ stdout = << >>
    /\ cli = EmptyCli
    /\ runs = 0
    /\ fs0 = fs
    /\ mpc = "start"
    /\ exit_code = -1
    /\ template = << >>
    /\ cfg = DefaultConfig
    /\ pc = "idle"
    /\ last_end = 0 /\ result = << >> /\ idx = 0
    /\ calls = << >> /\ trace = << >> /\ pass = 1 /\ first = << >>
    /\ IdleEscape /\ IdleLoad

NextMain ==
    \/ MainParse \/ MainEnvFile \/ LoadLine \/ LoadReturn \/ MainConfig
    \/ LoadContent \/ RenderStart \/ RenderMatch \/ RenderFinish
    \/ RewriteOrPrint \/ MainPanic

SpecMain == InitMain /\ [][NextMain]_vars

---------------------------------------------------------------------------
(* Successive runs of run_from_stdio, lib.rs:171-175, over one input file *)

RunFiles == { << >>, << ":" >>, FileT }

RunConfigs ==
    [ file_name : {None, Some("t")}, rewrite : BOOLEAN, helm_only : BOOLEAN,
      escape : {FALSE}, default : Defaults, debug : BOOLEAN, env_vars : {None} ]

InitRun ==
    /\ cfg \in RunConfigs
    /\ fs \in { [x \in {} |-> << >>] } \cup { [x \in {"t"} |-> c] : c \in RunFiles }
    /\ fs0 = fs
    /\ stdin_content \in { << >>, StdinText }
    /\ process_env \in { e \in Envs : \A n, m \in Names : e[n].some = e[m].some }
    /\ raw_args = << >> /\ cli = EmptyCli
    /\ stdout = << >>
    /\ runs = 0
    /\ mpc = "run"
    /\ exit_code = -1
    /\ template = << >>
    /\ pc = "idle"
    /\ last_end = 0 /\ result = << >> /\ idx = 0
    /\ calls = << >> /\ trace = << >> /\ pass = 1 /\ first = << >>
    /\ IdleEscape /\ IdleLoad

NextRun ==
    \/ LoadContent \/ RenderStart \/ RenderMatch \/ RenderFinish
    \/ RewriteOrPrint \/ RunAgain

SpecRun == InitRun /\ [][NextRun]_vars

---------------------------------------------------------------------------
(* Properties of the render *)

(* the match the loop is about to handle *)
Cur == FindMatch(template, last_end)
AtMatch == pc = "loop" /\ Cur.found
CurOrig == Slice(template, Cur.start, Cur.end)

(* The output as the interleaving of unmatched spans and replacements: the
   spans before the matches ms[k..], each followed by the replacement of its
   match, then the trailing span. *)
RECURSIVE Interleave(_, _, _, _, _, _)
Interleave(t, c, env, ms, k, from) ==
    IF k > Len(ms)
    THEN Slice(t, from, Len(t))
    ELSE Slice(t, from, ms[k].start)
         \o Replacement(t, c, env, k - 1, ms[k]).text
         \o Interleave(t, c, env, ms, k + 1, ms[k].end)

Interleaved(t, c, env) == Interleave(t, c, env, AllMatches(t), 1, 0)

NoEnv == [n \in Names |-> None]

(* C1: render_template_with_lookup is total: for every template and every
   configuration the render ends with a string and never panics; is_helm_wrapped
   never slices the template off a character boundary. *)
C1_RenderIsTotal ==
    /\ pc # "panic"
    /\ (AtMatch /\ cfg.helm_only) => ~is_helm_wrapped(template, Cur.start, Cur.end).panic

(* C2: in normal mode a match whose name the lookup does not resolve is
   replaced by exactly the default, unescaped whether or not escape is set, if
   a default is configured, and by the matched text itself otherwise. *)
C2_UnresolvedPolicy ==
    [][ (AtMatch /\ ~cfg.helm_only /\ ~lookup(process_env, Cur.name).some)
        => /\ pc' = "loop"
           /\ result' = result \o Slice(template, last_end, Cur.start)
                          \o (IF cfg.default.some THEN cfg.default.val ELSE CurOrig) ]_vars

C2_Witness ==
    /\ pc = "done" /\ ~cfg.helm_only /\ cfg.escape /\ cfg.default.some
    /\ template = SpacedPlaceholder \o Placeholder
    /\ process_env = NoEnv
    /\ result = << "\"", "d", "\"", "d" >>
    /\ escape_special_chars(cfg.default.val) # cfg.default.val

(* C4: helm-only rendering is idempotent: the render of the output of a
   helm-only render ends and gives that output again. *)
C4_HelmIdempotent ==
    (cfg.helm_only /\ pass = 2)
        => /\ pc # "panic"
           /\ pc = "done" => result = first

C4_Witness ==
    /\ cfg.helm_only /\ pass = 2 /\ pc = "done"
    /\ first = HelmWrap(Placeholder)
    /\ result = first
    /\ AllMatches(first)[1].start = 3
    /\ AllMatches(first)[1].end + 3 = Len(first)

(* C6: the output is the unmatched spans of the template, unchanged and in
   order, interleaved with one replacement per match in match order and ended
   by the trailing span; a template without a match renders to itself. *)
C6_OutputIsInterleaving ==
    pc = "done"
        => /\ result = Interleaved(template, cfg, process_env)
           /\ AllMatches(template) = << >> => result = template

C6_Witness ==
    /\ pc = "done" /\ ~cfg.helm_only /\ ~cfg.default.some
    /\ template = MultiByte \o Placeholder \o SpacedPlaceholder
    /\ process_env = [n \in Names |-> IF n = << "F" >> THEN Some(<< "F", "\"" >>) ELSE None]
    /\ result = MultiByte \o (IF cfg.escape THEN << "F", "\\", "\"" >> ELSE << "F", "\"" >>)
                   \o SpacedPlaceholder

(* C7: the names passed to the lookup are the names of the matches handled
   so far, in match order and one per occurrence, in normal mode, and none in
   helm-only mode; a finished render has handled every match, and a helm-only
   output is the one obtained with no default and an empty lookup source. *)
C7_LookupSequence ==
    /\ pc \in {"loop", "done", "panic"}
        => /\ idx <= Len(AllMatches(template))
           /\ calls = IF cfg.helm_only THEN << >>
                      ELSE [k \in 1..idx |-> AllMatches(template)[k].name]
    /\ pc = "done" => idx = Len(AllMatches(template))
    /\ (pc = "done" /\ cfg.helm_only)
        => result = Interleaved(template, [cfg EXCEPT !.default = None], NoEnv)

C7_Witness ==
    /\ pc = "done" /\ ~cfg.helm_only
    /\ template = Placeholder \o SpacedPlaceholder \o Placeholder
    /\ calls = << << "F" >>, << "G" >>, << "F" >> >>

---------------------------------------------------------------------------
(* Properties of the escape transform *)

(* the escape of one character taken alone *)
EscapeChar(c) ==
    CASE c = "\\" -> << "\\", "\\" >>
      [] c = "\"" -> << "\\", "\"" >>
      [] c = "LF" -> << "\\", "n" >>
      [] c = "CR" -> << "\\", "r" >>
      [] c = "BS" -> << "\\", "b" >>
      [] c = "FF" -> << "\\", "f" >>
      [] c = "TAB" -> << "\\", "t" >>
      [] OTHER -> << c >>

EscapeEach(t) == Flatten([k \in 1..Len(t) |-> EscapeChar(t[k])])

(* C5: escape_special_chars(v) is v with each character mapped independently
   and once: nothing introduced by an earlier replace call is escaped again
   by a later one. *)
C5_EscapeIsCharwise ==
    /\ escape_special_chars(orig) = EscapeEach(orig)
    /\ esc_step = EscapeSteps => s = EscapeEach(orig)

C5_Witness ==
    /\ esc_step = EscapeSteps
    /\ orig = << "\"", "\\", "LF" >>
    /\ s = << "\\", "\"", "\\", "\\", "\\", "n" >>

---------------------------------------------------------------------------
(* Properties of the key/value file loader *)

(* a KEY=VALUE line: not blank, not a comment, and with a key before its
   first "=" once an optional leading "export " is removed *)
IsEntryLine(line) ==
    /\ Trim(line) # << >>
    /\ Head(Trim(line)) # "#"
    /\ FirstEq(StripExport(Trim(line)), 0) < Len(StripExport(Trim(line)))
    /\ Trim(KeyPart(StripExport(Trim(line)))) # << >>

(* C8: loading a key/value file never aborts because of the content of a
   line: whatever the lines are the load goes on to return a map, and every
   KEY=VALUE line read has contributed its key. *)
C8_LoadNeverAborts ==
    /\ lpc # "panic"
    /\ \A k \in 1..line_no :
          IsEntryLine(lines[k]) => Trim(KeyPart(StripExport(Trim(lines[k])))) \in DOMAIN map

---------------------------------------------------------------------------
(* Properties of the command line driver *)

(* the lookup source an explicit key/value map stands for *)
MapLookup(m) == [k \in DOMAIN m |-> Some(m[k])]

(* C3: when an explicit key/value map is supplied (--env-file), every
   placeholder name is resolved against that map only, whatever the process
   environment holds. *)
C3_ExplicitMapOnly ==
    (mpc = "render" /\ pc = "done" /\ cfg.env_vars.some)
        => result = Interleaved(template, cfg, MapLookup(cfg.env_vars.val))

(* the invocation ends with "-" and carries no -f / --file: normalize_args
   turns it into -f - *)
StdinSignal ==
    /\ Len(raw_args) > 1
    /\ raw_args[Len(raw_args)] = "-"
    /\ \A k \in 2..Len(raw_args) : ~IsFileFlag(raw_args[k])

(* C9: with the stdin signal the rendered template is the full contents of
   standard input; with a named file it is the file's contents if the file
   exists and the empty text if it does not. *)
C9_TemplateSource ==
    mpc = "render"
        => /\ StdinSignal => template = stdin_content
           /\ (~StdinSignal /\ cli.file = Some("t"))
                 => template = IF "t" \in DOMAIN fs THEN fs["t"] ELSE << >>

(* the invocation carries neither -f / --file nor "-" *)
NoInputSelected ==
    \A k \in 2..Len(raw_args) : ~IsFileFlag(raw_args[k]) /\ raw_args[k] # "-"

HelpAsked == \E k \in 2..Len(raw_args) : raw_args[k] = "-h"

(* C10 as stated: every invocation without -f / --file and without "-", the
   one with no arguments included, ends with a non-zero exit status and
   never runs a render. *)
C10_NoInputIsUsageError ==
    NoInputSelected
        => /\ pc = "idle"
           /\ mpc = "exit" => exit_code # 0

(* C10 as amended: an invocation without -f / --file and without "-" never
   runs a render; it ends with a non-zero exit status if it has at least one
   argument and none of them is the help flag, and with status 0, after the
   help text, if it has no arguments at all. *)
C10_NoInputNoRender ==
    NoInputSelected
        => /\ pc = "idle"
           /\ mpc \in {"start", "exit"}
           /\ (mpc = "exit" /\ Len(raw_args) = 1) => exit_code = 0
           /\ (mpc = "exit" /\ Len(raw_args) > 1 /\ ~HelpAsked)
                 => exit_code \in {ExitFailure, ClapUsageError}

C10_Witness ==
    /\ raw_args = << "apply-env", "-w", "--env-file=e" >>
    /\ NoInputSelected
    /\ mpc = "exit"
    /\ exit_code = ExitFailure

---------------------------------------------------------------------------
(* Properties of the debug trace *)

(* C11: with debug enabled a render emits exactly one trace line per match
   decision, in match order and carrying the match index, whatever the
   outcome is (resolved value, default, kept verbatim, helm wrap, or a
   helm-only match kept because it is already wrapped); the output is the
   one given with debug disabled. *)
C11_OneTraceLinePerMatch ==
    /\ (cfg.debug /\ pc \in {"loop", "done"})
          => /\ Len(trace) = idx
             /\ \A k \in 1..Len(trace) :
                   /\ trace[k].index = k - 1
                   /\ trace[k].orig = Slice(template, AllMatches(template)[k].start,
                                            AllMatches(template)[k].end)
    /\ (cfg.debug /\ pc = "done")
          => /\ Len(trace) = Len(AllMatches(template))
             /\ result = Interleaved(template, [cfg EXCEPT !.debug = FALSE], process_env)


---------------------------------------------------------------------------
(* Properties of rewrite_or_print over successive runs *)

Newlines(k) == [j \in 1..k |-> "LF"]

InputFile == cfg.file_name.val

(* no name of the original file has a value in the environment *)
NeverResolved ==
    \A k \in 1..Len(AllMatches(fs0[InputFile])) :
        ~lookup(process_env, AllMatches(fs0[InputFile])[k].name).some

RewriteRuns == cfg.rewrite /\ cfg.file_name.some /\ InputFile \in DOMAIN fs0

(* the step of rewrite_or_print: the file is written exactly when rewrite is
   enabled, a file name is configured and the output is non-empty, and then
   holds the output followed by one newline; otherwise the output is appended
   to standard output and no file changes *)
RewriteStep ==
    (mpc = "render" /\ mpc' = "exit")
        => IF cfg.rewrite /\ cfg.file_name.some /\ result # << >>
           THEN /\ InputFile \in DOMAIN fs'
                /\ fs'[InputFile] = result \o << "LF" >>
                /\ \A x \in DOMAIN fs' \ {InputFile} : x \in DOMAIN fs /\ fs'[x] = fs[x]
                /\ stdout' = stdout
           ELSE /\ fs' = fs
                /\ stdout' = stdout \o result

FilesChangeOnlyInRewriteStep ==
    fs' # fs => mpc = "render" /\ cfg.rewrite /\ cfg.file_name.some /\ result # << >>

(* C12 as stated: the file is modified only by a rewrite with a file name and
   a non-empty output, its new content is the output followed by one newline,
   and after k runs with rewrite enabled over a file whose placeholders have no
   value the file holds the original content followed by k newlines *)
C12_KNewlinesAsStated ==
    /\ [][RewriteStep /\ FilesChangeOnlyInRewriteStep]_vars
    /\ [](RewriteRuns /\ NeverResolved /\ mpc = "exit"
             => fs[InputFile] = fs0[InputFile] \o Newlines(runs))

(* C12 amended: as above, with the k newlines promised only for a non-empty
   file rendered in normal mode with no default value configured *)
C12_KNewlinesNonEmptyNormal ==
    /\ [][RewriteStep /\ FilesChangeOnlyInRewriteStep]_vars
    /\ [](RewriteRuns /\ NeverResolved /\ mpc = "exit"
          /\ ~cfg.helm_only /\ ~cfg.default.some /\ fs0[InputFile] # << >>
             => fs[InputFile] = fs0[InputFile] \o Newlines(runs))

C12_Witness ==
    /\ RewriteRuns /\ NeverResolved /\ ~cfg.helm_only /\ ~cfg.default.some
    /\ mpc = "exit"
    /\ runs = MaxRuns
    /\ fs0[InputFile] = FileT
    /\ fs[InputFile] = FileT \o Newlines(MaxRuns)

=============================================================================
